---------------------------- MODULE Spec2Model ----------------------------
(***************************************************************************)
(* A model of the batch site generator in src/index.js (class              *)
(* BatchProcessor) and its configuration (src/unnamed/part_000, the        *)
(* module the source imports as ./config.js).                              *)
(*                                                                         *)
(* One run of the pipeline is start(): checkDependencies, getUserInput,    *)
(* generateProjects, deployToGitHub, writeSiteMappings.  The workspace     *)
(* (directories on disk), the remote host and the site map file are the    *)
(* environment the run acts on.  Math.random is a nondeterministic choice. *)
(***************************************************************************)
EXTENDS Integers, Sequences, FiniteSets, TLC

(***************************************************************************)
(* Bounds of the model.                                                    *)
(***************************************************************************)
\* largest subdomainCount the user answers
MaxSubdomainCount == 2
\* largest gamesMax the user answers in a run of the whole pipeline
MaxGamesRun == 2
\* longest template catalog (data/games.json "games" array) of a run
MaxCatalogRun == 2
\* largest gamesMax / totalSites given to the count planning on its own
MaxGamesPlan == 4
\* longest catalog and largest count given to processGamesJson on its own
MaxCatalogSelect == 3
\* number of directories other programs may create while a run is going on
MaxExternalChanges == 1

(***************************************************************************)
(* Program constants.                                                      *)
(***************************************************************************)
\* the shortest prefix the prompt accepts (index.js:83)
MinPrefixLength == 3
\* gamesMin must be at least this (index.js:91)
MinGamesMin == 1

\* const chars = "abcdefghijklmnopqrstuvwxyz0123456789" (index.js:209),
\* as a sequence of one-character strings
chars ==
  << "a", "b", "c", "d", "e", "f", "g", "h", "i", "j", "k", "l", "m",
     "n", "o", "p", "q", "r", "s", "t", "u", "v", "w", "x", "y", "z",
     "0", "1", "2", "3", "4", "5", "6", "7", "8", "9" >>

\* the values Math.floor(Math.random() * chars.length) takes in the model:
\* the indices of "a" and "b" (the choice among all 36 is the same choice)
RandomCharIndex == { 1, 2 }

\* the lists config.domains is drawn from (part_000:3-5 holds the first);
\* every list holds distinct base domains
DomainLists ==
  { << "game92.vip" >>, << "a.io", "b.io" >> }

\* config.githubUsername (part_000:8), and the placeholder deployToGitHub
\* rejects
GithubUsernames == { "wjspark", "YourGitHubUsername" }

(***************************************************************************)
(* Pure helpers.                                                           *)
(***************************************************************************)
Range(s) == { s[i] : i \in DOMAIN s }

IsDistinct(s) == \A i, j \in DOMAIN s : i # j => s[i] # s[j]

Min(a, b) == IF a <= b THEN a ELSE b

\* Swap written without a temporary: a[i] = a[j]; a[j] = a[i]
SwapWithoutTemp(a, i, j) == [a EXCEPT ![i] = a[j]]

\* [a[i], a[j]] = [a[j], a[i]]
Swap(a, i, j) == [a EXCEPT ![i] = a[j], ![j] = a[i]]

\* The outcomes of the shuffle loop
\*   for (let i = a.length - 1; i > 0; i--) { j = floor(random() * (i + 1)); swap }
\* from index i down (1-based here: i runs from Len(a) down to 2, j over 1..i).
RECURSIVE ShuffleFrom(_, _)
ShuffleFrom(a, i) ==
  IF i <= 1 THEN { a }
  ELSE UNION { ShuffleFrom(Swap(a, i, j), i - 1) : j \in 1..i }

Shuffle(a) == ShuffleFrom(a, Len(a))

\* a.slice(0, n) for an integer n >= 0
Slice(a, n) == SubSeq(a, 1, Min(n, Len(a)))

\* for (let i = gamesMin; i <= gamesMax; i++) possibleCounts.push(i)
CountsInRange(gamesMin, gamesMax) ==
  [k \in 1..(IF gamesMax >= gamesMin THEN gamesMax - gamesMin + 1 ELSE 0)
     |-> gamesMin + k - 1]

\* planCounts with the length check off by one
planCountsOffByOne(gamesMin, gamesMax, totalSitesToCreate) ==
  LET counts == CountsInRange(gamesMin, gamesMax)
  IN  IF Len(counts) + 1 < totalSitesToCreate
      THEN { [ok |-> FALSE, counts |-> << >>] }
      ELSE { [ok |-> TRUE, counts |-> c] : c \in Shuffle(counts) }

\* The count planning of generateProjects (index.js:262-272): the throw of a
\* range that is too small, or one of the shuffles of the whole range.
planCounts(gamesMin, gamesMax, totalSitesToCreate) ==
  LET counts == CountsInRange(gamesMin, gamesMax)
  IN  IF Len(counts) < totalSitesToCreate
      THEN { [ok |-> FALSE, counts |-> << >>] }
      ELSE { [ok |-> TRUE, counts |-> c] : c \in Shuffle(counts) }

\* generateRandomPrefix(length): every string the loop can build
RECURSIVE generateRandomPrefix(_)
generateRandomPrefix(length) ==
  IF length <= 0 THEN { "" }
  ELSE { result \o chars[k] :
           result \in generateRandomPrefix(length - 1), k \in RandomCharIndex }

\* the subdomains pushed for one main domain: subdomainCount prefixed names
RECURSIVE SubdomainLists(_, _, _)
SubdomainLists(mainDomain, subdomainCount, prefixLength) ==
  IF subdomainCount <= 0 THEN { << >> }
  ELSE { Append(l, prefix \o "." \o mainDomain) :
           l \in SubdomainLists(mainDomain, subdomainCount - 1, prefixLength),
           prefix \in generateRandomPrefix(prefixLength) }

\* the allDomains list of generateProjects, for every outcome of the prefixes
RECURSIVE expandDomains(_, _, _)
expandDomains(baseDomains, subdomainCount, prefixLength) ==
  IF baseDomains = << >> THEN { << >> }
  ELSE LET mainDomain == baseDomains[Len(baseDomains)]
           before == SubSeq(baseDomains, 1, Len(baseDomains) - 1)
       IN  { front \o << mainDomain >> \o subs :
               front \in expandDomains(before, subdomainCount, prefixLength),
               subs \in SubdomainLists(mainDomain, subdomainCount, prefixLength) }

\* config.domains.length * (1 + subdomainCount)
totalSites(baseDomains, subdomainCount) == Len(baseDomains) * (1 + subdomainCount)

(***************************************************************************)
(* data/games.json.  A JavaScript value is a record [type, items]; a game  *)
(* is a record [name, tags] whose tags is such a value.                    *)
(***************************************************************************)
JsArray(items) == [type |-> "array", items |-> items]
JsUndefined == [type |-> "undefined", items |-> << >>]
\* a value that is truthy and no array (an object, a string)
JsOther == [type |-> "other", items |-> << >>]

\* the tags a game of the model carries: an array with html5, an array
\* without it, and a tags field that is not an array
TagValues == { JsArray(<< "html5" >>), JsArray(<< "action" >>), JsOther }

\* isHtml5 without the includes("html5") test
isHtml5AnyTags(game) == game.tags.type = "array"

\* Array.isArray(game.tags) && game.tags.includes("html5")
isHtml5(game) == game.tags.type = "array" /\ "html5" \in Range(game.tags.items)

\* gamesData.games.filter(isHtml5)
html5Games(games) == SelectSeq(games, isHtml5)

\* the catalogs of at most n games; the k-th game is named by its position
GameName(k) == "g" \o ToString(k)

Catalogs(n) ==
  UNION { { [k \in 1..len |-> [name |-> GameName(k), tags |-> t[k]]] :
              t \in [1..len -> TagValues] } : len \in 0..n }

\* a file that cannot be read as JSON (missing, malformed, I/O error)
Unreadable == [type |-> "unreadable", games |-> JsUndefined]
JsonFile(games) == [type |-> "json", games |-> games]

\* the games.json files whose games field holds a catalog of at most n games
CatalogFiles(n) == { JsonFile(JsArray(c)) : c \in Catalogs(n) }

\* the outcomes of the file system during one processGamesJson
IoOutcomes == { "ok", "readFails", "writeFails" }

\* the catch block throwing the error on after the warning
catchGamesErrorRethrow(file) == [file |-> file, warned |-> TRUE, thrown |-> TRUE]

\* the catch block of processGamesJson (index.js:363-365): a warning, the
\* file as it was, nothing thrown on
catchGamesError(file) == [file |-> file, warned |-> TRUE, thrown |-> FALSE]

\* processGamesJson(projectPath, gamesCount) on a games.json holding `file`
\* (index.js:335-366): the file afterwards, whether it warned and whether it
\* threw, for every outcome of the shuffle.  gamesCount is an integer >= 0.
processGamesJson(file, gamesCount, io) ==
  IF file.type # "json" \/ io = "readFails"
  THEN { catchGamesError(file) }
  ELSE LET gamesData == file.games
           results ==
             IF gamesData.type = "array"
             THEN { JsArray(Slice(shuffled, gamesCount)) :
                      shuffled \in Shuffle(html5Games(gamesData.items)) }
             ELSE { gamesData }
       IN  IF io = "writeFails"
           THEN { catchGamesError(file) }
           ELSE { [file |-> JsonFile(g), warned |-> FALSE, thrown |-> FALSE] :
                    g \in results }

\* the eligibility check counting every game of the catalog, tagged or not
templateGamesCheckAllGames(file, gamesMax) ==
  IF file.type # "json" THEN "ReadError"
  ELSE IF file.games.type = "other" THEN "TypeError"
  ELSE LET eligible == IF file.games.type = "array"
                       THEN Len(file.games.items) ELSE 0
       IN  IF eligible < gamesMax THEN "InsufficientEligibleGames" ELSE "ok"

\* the eligibility check of getUserInput (index.js:145-156) on the template's
\* games.json: what the check ends in
templateGamesCheck(file, gamesMax) ==
  IF file.type # "json" THEN "ReadError"
  ELSE IF file.games.type = "other" THEN "TypeError"
  ELSE LET eligible == IF file.games.type = "array"
                       THEN Len(html5Games(file.games.items)) ELSE 0
       IN  IF eligible < gamesMax THEN "InsufficientEligibleGames" ELSE "ok"

eligibleCount(file) ==
  IF file.type = "json" /\ file.games.type = "array"
  THEN Len(html5Games(file.games.items)) ELSE 0

(***************************************************************************)
(* Names.  A name the user types is a sequence of one-character strings;   *)
(* a project name the program builds is a string.                          *)
(***************************************************************************)
Digits == { "0", "1", "2", "3", "4", "5", "6", "7", "8", "9" }

DigitValue(c) == CHOOSE d \in 0..9 : ToString(d) = c

\* the match of /(\d+)$/: the longest run of digits at the end
RECURSIVE TrailingDigits(_)
TrailingDigits(name) ==
  IF name = << >> \/ name[Len(name)] \notin Digits THEN << >>
  ELSE Append(TrailingDigits(SubSeq(name, 1, Len(name) - 1)), name[Len(name)])

RECURSIVE parseInt(_)
parseInt(digits) ==
  IF digits = << >> THEN 0
  ELSE 10 * parseInt(SubSeq(digits, 1, Len(digits) - 1))
         + DigitValue(digits[Len(digits)])

\* extractSiteNumber(siteName), for a name that ends in digits (the prompt
\* accepts no other, index.js:114-118)
extractSiteNumber(siteName) == parseInt(TrailingDigits(siteName))

\* `site${n}`
projectName(n) == "site" \o ToString(n)

\* path.join(this.workspaceRoot, projectName)
projectPath(name) == "/workspace/" \o name

\* the names the user answers the starting-name prompt with; all pass its
\* validate (they end in "site" and digits)
StartingNames ==
  { << "s", "i", "t", "e", "2" >>,
    << "m", "y", "s", "i", "t", "e", "0", "1" >> }

\* validateProjectNames(startingSiteName, totalSitesToCreate) against the
\* directories `dirs` of the workspace: the conflicts, in order
validateProjectNames(startingSiteName, totalSitesToCreate, dirs) ==
  LET baseNumber == extractSiteNumber(startingSiteName)
      candidates == [i \in 1..totalSitesToCreate |-> projectName(baseNumber + i - 1)]
      Exists(name) == name \in dirs
  IN  SelectSeq(candidates, Exists)

(***************************************************************************)
(* The state of one run and of its environment.                            *)
(***************************************************************************)
VARIABLES
  pc,                \* where start() is: the stage that runs next
  config,            \* the imported config: [domains, githubUsername]
  template,          \* the template project on disk: [found, siteConfig, gamesJson]
  workspace,         \* the directories of the workspace root: name -> contents
  answers,           \* the answers object of getUserInput
  conflicts,         \* the result of the last validateProjectNames
  allDomains,        \* generateProjects: the expanded domain list
  possibleCounts,    \* generateProjects: the shuffled counts
  siteNumberCounter, \* generateProjects: the number of the last project
  siteIndex,         \* generateProjects: projects materialized so far
  generatedSites,    \* this.generatedSites
  warnings,          \* the projects processGamesJson warned about
  deployIndex,       \* deployToGitHub: sites published so far
  stepsRun,          \* the publishing steps attempted: <<projectName, step>>
  remote,            \* the repositories created on the remote host
  siteMap,           \* generated-sites-map.json: [written, mapping]
  mapWrites,         \* how often this run wrote the site map
  error,             \* the error start() caught: [kind, project, cause]
  externalChanges,   \* directories created by others during the run
  call               \* a function applied on its own: [fn, args, done, result]

vars ==
  << pc, config, template, workspace, answers, conflicts, allDomains,
     possibleCounts, siteNumberCounter, siteIndex, generatedSites, warnings,
     deployIndex, stepsRun, remote, siteMap, mapWrites, error,
     externalChanges, call >>

runVars ==
  << pc, config, template, workspace, answers, conflicts, allDomains,
     possibleCounts, siteNumberCounter, siteIndex, generatedSites, warnings,
     deployIndex, stepsRun, remote, siteMap, mapWrites, error,
     externalChanges >>

NoError == [kind |-> "none", project |-> "", cause |-> ""]
NoAnswers ==
  [subdomainCount |-> 0, prefixLength |-> 0, gamesMin |-> 0, gamesMax |-> 0,
   startingSiteName |-> << >>]
NoCall == [fn |-> "none", args |-> << >>, done |-> FALSE, result |-> << >>]
NoSiteMap == [written |-> FALSE, mapping |-> << >>]

\* a directory the run did not make, and one a failed copy left behind
ExternalDir == [siteConfig |-> "(external)", gamesJson |-> Unreadable]
PartialDir == [siteConfig |-> "(partial)", gamesJson |-> Unreadable]

\* the template projects a run may find: none, or one with or without its
\* data/site-config.js and with one of these data/games.json
TemplateGamesFiles ==
  { Unreadable, JsonFile(JsUndefined), JsonFile(JsOther) }
    \cup CatalogFiles(MaxCatalogRun)

Templates ==
  { [found |-> FALSE, siteConfig |-> FALSE, gamesJson |-> Unreadable] }
    \cup { [found |-> TRUE, siteConfig |-> c, gamesJson |-> g] :
             c \in BOOLEAN, g \in TemplateGamesFiles }

\* the project directories present before the run, and those others may
\* create during it
InitialDirNames == { "site2" }
ExternalDirNames == { "site2", "site3" }

\* the state constructor() and the module's imports leave
RunInit ==
  /\ pc = "checkDependencies"
  /\ config \in [domains : DomainLists, githubUsername : GithubUsernames]
  /\ template \in Templates
  /\ \E dirs \in SUBSET InitialDirNames : workspace = [d \in dirs |-> ExternalDir]
  /\ answers = NoAnswers
  /\ conflicts = << >>
  /\ allDomains = << >>
  /\ possibleCounts = << >>
  /\ siteNumberCounter = 0
  /\ siteIndex = 0
  /\ generatedSites = << >>
  /\ warnings = << >>
  /\ deployIndex = 0
  /\ stepsRun = << >>
  /\ remote = << >>
  /\ siteMap = NoSiteMap
  /\ mapWrites = 0
  /\ error = NoError
  /\ externalChanges = 0

Init == RunInit /\ call = NoCall

\* the catch block of start(): report, process.exit(1)
Fail(kind, project, cause) ==
  /\ pc' = "failed"
  /\ error' = [kind |-> kind, project |-> project, cause |-> cause]

\* checkDependencies (index.js:35-52)
checkDependencies ==
  /\ pc = "checkDependencies"
  /\ \E gh \in { "ok", "gh --version", "gh auth status" } :
       IF gh = "ok"
       THEN pc' = "prompt" /\ error' = error
       ELSE Fail("DependencyError", "", gh)
  /\ UNCHANGED << config, template, workspace, answers, conflicts, allDomains,
                  possibleCounts, siteNumberCounter, siteIndex, generatedSites,
                  warnings, deployIndex, stepsRun, remote, siteMap, mapWrites,
                  externalChanges, call >>

\* getUserInput, the first prompt (index.js:60-105): the answers its
\* validate functions accept
promptAnswers ==
  /\ pc = "prompt"
  /\ \E subdomainCount \in 0..MaxSubdomainCount,
        gamesMin \in MinGamesMin..MaxGamesRun :
       \E gamesMax \in gamesMin..MaxGamesRun :
         answers' = [subdomainCount |-> subdomainCount,
                     prefixLength |-> IF subdomainCount > 0 THEN MinPrefixLength ELSE 0,
                     gamesMin |-> gamesMin,
                     gamesMax |-> gamesMax,
                     startingSiteName |-> << >>]
  /\ pc' = "startingName"
  /\ UNCHANGED << config, template, workspace, conflicts, allDomains,
                  possibleCounts, siteNumberCounter, siteIndex, generatedSites,
                  warnings, deployIndex, stepsRun, remote, siteMap, mapWrites,
                  error, externalChanges, call >>

\* getUserInput, one round of the starting-name loop (index.js:109-135)
promptStartingName ==
  /\ pc = "startingName"
  /\ \E name \in StartingNames :
       LET found == validateProjectNames(
                      name, totalSites(config.domains, answers.subdomainCount),
                      DOMAIN workspace)
       IN  /\ conflicts' = found
           /\ answers' = IF Len(found) = 0
                         THEN [answers EXCEPT !.startingSiteName = name]
                         ELSE answers
           /\ pc' = IF Len(found) = 0 THEN "template" ELSE "startingName"
  /\ UNCHANGED << config, template, workspace, allDomains,
                  possibleCounts, siteNumberCounter, siteIndex, generatedSites,
                  warnings, deployIndex, stepsRun, remote, siteMap, mapWrites,
                  error, externalChanges, call >>

\* getUserInput, the template (index.js:137-166): findTemplatePath, the
\* eligibility check on its games.json, validateTemplateProject
locateTemplate ==
  /\ pc = "template"
  /\ LET check == templateGamesCheck(template.gamesJson, answers.gamesMax)
     IN  IF ~template.found THEN Fail("TemplateNotFound", "", "")
         ELSE IF check # "ok" THEN Fail(check, "", "")
         ELSE IF ~template.siteConfig
              THEN Fail("MissingTemplateFile", "", "data/site-config.js")
         ELSE pc' = "generate" /\ error' = error
  /\ UNCHANGED << config, template, workspace, answers, conflicts, allDomains,
                  possibleCounts, siteNumberCounter, siteIndex, generatedSites,
                  warnings, deployIndex, stepsRun, remote, siteMap, mapWrites,
                  externalChanges, call >>

\* the counter started at baseNumber, although the loop increments first
initialCounterNoOffset(baseNumber) == baseNumber

\* let siteNumberCounter = baseNumber - 1 (index.js:246)
initialCounter(baseNumber) == baseNumber - 1

\* generateProjects up to its loop (index.js:239-272): the domain list and
\* the shuffled counts, or the throw of a range that is too small
planProjects ==
  /\ pc = "generate"
  /\ LET baseNumber == extractSiteNumber(answers.startingSiteName)
         totalSitesToCreate == totalSites(config.domains, answers.subdomainCount)
     IN  \E plan \in planCounts(answers.gamesMin, answers.gamesMax,
                                totalSitesToCreate) :
           IF plan.ok
           THEN /\ allDomains' \in expandDomains(config.domains,
                                                 answers.subdomainCount,
                                                 answers.prefixLength)
                /\ possibleCounts' = plan.counts
                /\ siteNumberCounter' = initialCounter(baseNumber)
                /\ siteIndex' = 0
                /\ pc' = "materialize"
                /\ error' = error
           ELSE /\ Fail("RangeTooSmall", "", "")
                /\ UNCHANGED << allDomains, possibleCounts, siteNumberCounter,
                                siteIndex >>
  /\ UNCHANGED << config, template, workspace, answers, conflicts,
                  generatedSites, warnings, deployIndex, stepsRun, remote,
                  siteMap, mapWrites, externalChanges, call >>

\* what fs.copy(templatePath, projectPath) puts into the new directory
templateCopy == [siteConfig |-> "(template)", gamesJson |-> template.gamesJson]

\* the outcomes of the file system during one pass of the loop
MaterializeIo == { "ok", "copyFails", "configFails", "readFails", "writeFails" }

\* the workspace with directory `name` holding `contents`
WithDir(name, contents) ==
  [d \in DOMAIN workspace \cup { name } |->
     IF d = name THEN contents ELSE workspace[d]]

\* the loop without its existence check
targetExistsUnchecked(name) == FALSE

\* the guard of index.js:281: the target directory is there already
targetExists(name) == name \in DOMAIN workspace

\* generateProjects, one pass of its loop (index.js:274-307): the existence
\* check, the copy, updateSiteConfig, processGamesJson, the push
materializeProject ==
  /\ pc = "materialize"
  /\ siteIndex < Len(allDomains)
  /\ LET newDomain == allDomains[siteIndex + 1]
         name == projectName(siteNumberCounter + 1)
         gamesCount == possibleCounts[siteIndex + 1]
     IN  /\ siteNumberCounter' = siteNumberCounter + 1
         /\ IF targetExists(name)
            THEN /\ Fail("ProjectExists", name, "")
                 /\ UNCHANGED << workspace, generatedSites, warnings, siteIndex >>
            ELSE \E io \in MaterializeIo :
                   CASE io = "copyFails" ->
                          /\ Fail("MaterializationFailed", name, "copy")
                          /\ \E made \in BOOLEAN :
                               workspace' = IF made THEN WithDir(name, PartialDir)
                                            ELSE workspace
                          /\ UNCHANGED << generatedSites, warnings, siteIndex >>
                     [] io = "configFails" ->
                          /\ Fail("MaterializationFailed", name, "site-config")
                          /\ workspace' = WithDir(name, templateCopy)
                          /\ UNCHANGED << generatedSites, warnings, siteIndex >>
                     [] OTHER ->
                          \E out \in processGamesJson(templateCopy.gamesJson,
                                                      gamesCount, io) :
                            /\ workspace' =
                                 WithDir(name, [siteConfig |-> newDomain,
                                                gamesJson |-> out.file])
                            /\ warnings' = IF out.warned THEN Append(warnings, name)
                                           ELSE warnings
                            /\ IF out.thrown
                               THEN /\ Fail("MaterializationFailed", name, "games.json")
                                    /\ UNCHANGED << generatedSites, siteIndex >>
                               ELSE /\ generatedSites' =
                                         Append(generatedSites,
                                                [projectName |-> name,
                                                 path |-> projectPath(name),
                                                 domain |-> newDomain])
                                    /\ siteIndex' = siteIndex + 1
                                    /\ pc' = IF siteIndex + 1 < Len(allDomains)
                                             THEN "materialize" ELSE "deploy"
                                    /\ error' = error
  /\ UNCHANGED << config, template, answers, conflicts, allDomains,
                  possibleCounts, deployIndex, stepsRun, remote, siteMap,
                  mapWrites, externalChanges, call >>

\* deployToGitHub up to its loop (index.js:368-373)
deployToGitHub ==
  /\ pc = "deploy"
  /\ IF config.githubUsername = "YourGitHubUsername" \/ config.githubUsername = ""
     THEN Fail("GithubUsernameNotSet", "", "")
     ELSE pc' = "publish" /\ error' = error
  /\ UNCHANGED << config, template, workspace, answers, conflicts, allDomains,
                  possibleCounts, siteNumberCounter, siteIndex, generatedSites,
                  warnings, deployIndex, stepsRun, remote, siteMap, mapWrites,
                  externalChanges, call >>

\* the steps of publishing one site, in order: git.init().add().commit()
\* (index.js:379), the removal of the remotes (382-385), gh repo create
\* --push (392-395)
PublishSteps == << "commit", "removeRemotes", "createAndPush" >>

\* `${config.githubUsername}/wj-${site.projectName}`
fullRepoName(site) == config.githubUsername \o "/wj-" \o site.projectName

\* the steps run for a site when failsAt is the step that throws (0: none):
\* every step up to it, each with its project and whether it succeeded
Attempted(site, failsAt) ==
  [i \in 1..(IF failsAt = 0 THEN Len(PublishSteps) ELSE failsAt) |->
     [project |-> site.projectName, step |-> PublishSteps[i], ok |-> i # failsAt]]

\* the catch block logging the error and going on
publishFailedSwallowed(site, step) == pc' = pc /\ error' = error

\* the catch block of deployToGitHub's loop (index.js:398-400): the error is
\* thrown on, with the project's name and the cause
publishFailed(site, step) ==
  Fail("PublishFailed", site.projectName, step)

\* deployToGitHub, one pass of its loop (index.js:375-401): failsAt is the
\* step that throws, 0 when none does
publishSite ==
  /\ pc = "publish"
  /\ deployIndex < Len(generatedSites)
  /\ LET site == generatedSites[deployIndex + 1]
     IN  \E failsAt \in 0..Len(PublishSteps) :
           /\ stepsRun' = stepsRun \o Attempted(site, failsAt)
           /\ IF failsAt = 0
              THEN /\ remote' = Append(remote, fullRepoName(site))
                   /\ deployIndex' = deployIndex + 1
                   /\ pc' = IF deployIndex + 1 < Len(generatedSites)
                            THEN "publish" ELSE "writeSiteMappings"
                   /\ error' = error
              ELSE /\ publishFailed(site, PublishSteps[failsAt])
                   /\ UNCHANGED << remote, deployIndex >>
  /\ UNCHANGED << config, template, workspace, answers, conflicts, allDomains,
                  possibleCounts, siteNumberCounter, siteIndex, generatedSites,
                  warnings, siteMap, mapWrites, externalChanges, call >>

\* the mapping built from site.path instead of site.projectName
siteMappingByPath(sites) ==
  [i \in 1..Len(sites) |->
     [siteName |-> sites[i].path, domain |-> sites[i].domain]]

\* generatedSites.map(site => ({ siteName, domain }))
siteMapping(sites) ==
  [i \in 1..Len(sites) |->
     [siteName |-> sites[i].projectName, domain |-> sites[i].domain]]

\* writeSiteMappings (index.js:404-414); a writeJson that throws leaves the
\* file as it was
writeSiteMappings ==
  /\ pc = "writeSiteMappings"
  /\ \E written \in BOOLEAN :
       IF written
       THEN /\ siteMap' = [written |-> TRUE, mapping |-> siteMapping(generatedSites)]
            /\ mapWrites' = mapWrites + 1
            /\ pc' = "done"
            /\ error' = error
       ELSE /\ Fail("WriteFailed", "", "generated-sites-map.json")
            /\ UNCHANGED << siteMap, mapWrites >>
  /\ UNCHANGED << config, template, workspace, answers, conflicts, allDomains,
                  possibleCounts, siteNumberCounter, siteIndex, generatedSites,
                  warnings, deployIndex, stepsRun, remote, externalChanges, call >>

\* Another program creates a directory in the workspace.  Before the name
\* check this is one of the initial workspaces, and after the last project
\* is made nothing reads the workspace, so it is taken in between.
externalCreateDir ==
  /\ pc \in { "template", "generate", "materialize" }
  /\ externalChanges < MaxExternalChanges
  /\ \E name \in ExternalDirNames \ DOMAIN workspace :
       workspace' = WithDir(name, ExternalDir)
  /\ externalChanges' = externalChanges + 1
  /\ UNCHANGED << pc, config, template, answers, conflicts, allDomains,
                  possibleCounts, siteNumberCounter, siteIndex, generatedSites,
                  warnings, deployIndex, stepsRun, remote, siteMap, mapWrites,
                  error, call >>

Next ==
  \/ checkDependencies
  \/ promptAnswers
  \/ promptStartingName
  \/ locateTemplate
  \/ planProjects
  \/ materializeProject
  \/ deployToGitHub
  \/ publishSite
  \/ writeSiteMappings
  \/ externalCreateDir

Spec == Init /\ [][Next]_vars

(***************************************************************************)
(* Functions applied on their own: the inputs are drawn by Init, the one   *)
(* action applies the function, and no run is going on.                    *)
(***************************************************************************)
RunIdle ==
  /\ pc = "idle"
  /\ config = [domains |-> << "game92.vip" >>, githubUsername |-> "wjspark"]
  /\ template = [found |-> FALSE, siteConfig |-> FALSE, gamesJson |-> Unreadable]
  /\ workspace = [d \in {} |-> ExternalDir]
  /\ answers = NoAnswers
  /\ conflicts = << >>
  /\ allDomains = << >>
  /\ possibleCounts = << >>
  /\ siteNumberCounter = 0
  /\ siteIndex = 0
  /\ generatedSites = << >>
  /\ warnings = << >>
  /\ deployIndex = 0
  /\ stepsRun = << >>
  /\ remote = << >>
  /\ siteMap = NoSiteMap
  /\ mapWrites = 0
  /\ error = NoError
  /\ externalChanges = 0

Pending(fn, args) == [fn |-> fn, args |-> args, done |-> FALSE, result |-> << >>]

Return(result) ==
  /\ call' = [call EXCEPT !.done = TRUE, !.result = result]
  /\ UNCHANGED runVars

\* the count planning of generateProjects on every range and site count
InitCounts ==
  /\ RunIdle
  /\ \E gamesMin \in MinGamesMin..MaxGamesPlan :
       \E gamesMax \in gamesMin..MaxGamesPlan,
          totalSitesToCreate \in 1..(MaxGamesPlan + 1) :
         call = Pending("planCounts",
                        [gamesMin |-> gamesMin, gamesMax |-> gamesMax,
                         totalSitesToCreate |-> totalSitesToCreate])

applyPlanCounts ==
  /\ call.fn = "planCounts" /\ ~call.done
  /\ \E plan \in planCounts(call.args.gamesMin, call.args.gamesMax,
                            call.args.totalSitesToCreate) :
       Return(plan)

SpecCounts == InitCounts /\ [][applyPlanCounts]_vars

\* the domain expansion of generateProjects on every domain list
InitDomains ==
  /\ RunIdle
  /\ \E baseDomains \in DomainLists, subdomainCount \in 0..MaxSubdomainCount :
       call = Pending("expandDomains",
                      [baseDomains |-> baseDomains,
                       subdomainCount |-> subdomainCount,
                       prefixLength |-> IF subdomainCount > 0
                                        THEN MinPrefixLength ELSE 0])

applyExpandDomains ==
  /\ call.fn = "expandDomains" /\ ~call.done
  /\ \E domains \in expandDomains(call.args.baseDomains, call.args.subdomainCount,
                                  call.args.prefixLength) :
       Return(domains)

SpecDomains == InitDomains /\ [][applyExpandDomains]_vars

\* processGamesJson on every games.json and count
InitSelect ==
  /\ RunIdle
  /\ \E file \in { Unreadable, JsonFile(JsUndefined), JsonFile(JsOther) }
                   \cup CatalogFiles(MaxCatalogSelect),
        gamesCount \in 0..(MaxCatalogSelect + 1) :
       call = Pending("processGamesJson",
                      [file |-> file, gamesCount |-> gamesCount])

applyProcessGamesJson ==
  /\ call.fn = "processGamesJson" /\ ~call.done
  /\ \E io \in IoOutcomes :
       \E out \in processGamesJson(call.args.file, call.args.gamesCount, io) :
         Return(out)

SpecSelect == InitSelect /\ [][applyProcessGamesJson]_vars

(***************************************************************************)
(* The claims.                                                             *)
(***************************************************************************)

\* C1: whenever gamesMax - gamesMin + 1 >= totalSites, the count planning
\* does not fail, and the counts it assigns to the totalSites projects (the
\* first totalSites entries of possibleCounts) are pairwise distinct integers
\* within [gamesMin, gamesMax], whatever the shuffle drew.
C1_DistinctCountsInRange ==
  (call.fn = "planCounts" /\ call.done
     /\ call.args.gamesMax - call.args.gamesMin + 1 >= call.args.totalSitesToCreate)
  => /\ call.result.ok
     /\ Len(call.result.counts) >= call.args.totalSitesToCreate
     /\ \A i \in 1..call.args.totalSitesToCreate :
          /\ call.result.counts[i] \in call.args.gamesMin..call.args.gamesMax
          /\ \A j \in 1..call.args.totalSitesToCreate :
               i # j => call.result.counts[i] # call.result.counts[j]

\* C1 witness: three counts were assigned out of a wider range, and the
\* shuffle moved them out of ascending order.
C1_Witness ==
  /\ call.fn = "planCounts" /\ call.done /\ call.result.ok
  /\ call.args.totalSitesToCreate = 3
  /\ call.args.gamesMax - call.args.gamesMin + 1 = 4
  /\ call.result.counts[1] > call.result.counts[2]

\* C2: the domains of the expanded list are pairwise distinct, whatever the
\* prefixes drawn.
C2_DomainsDistinct ==
  (call.fn = "expandDomains" /\ call.done) => IsDistinct(call.result)

\* C3: when the games field is an array and the file is written, the games
\* written are html5-tagged entries of the catalog read, no more than count,
\* and exactly min(count, eligibleCount) of them.
C3_SelectedGames ==
  (call.fn = "processGamesJson" /\ call.done
     /\ call.args.file.type = "json" /\ call.args.file.games.type = "array"
     /\ ~call.result.warned)
  => LET catalog == call.args.file.games.items
         eligible == { k \in DOMAIN catalog :
                         catalog[k].tags = JsArray(<< "html5" >>) }
         written == call.result.file.games
     IN  /\ call.result.file.type = "json" /\ written.type = "array"
         /\ \A i \in DOMAIN written.items :
              \E k \in eligible : written.items[i] = catalog[k]
         /\ Len(written.items) <= call.args.gamesCount
         /\ Len(written.items) = Min(call.args.gamesCount, Cardinality(eligible))

\* C3 witness: a catalog with two eligible entries and one that is not was
\* cut down to one game.
C3_Witness ==
  /\ call.fn = "processGamesJson" /\ call.done /\ ~call.result.warned
  /\ call.args.file.type = "json" /\ call.args.file.games.type = "array"
  /\ Len(call.args.file.games.items) = 3
  /\ Len(html5Games(call.args.file.games.items)) = 2
  /\ call.args.gamesCount = 1
  /\ Len(call.result.file.games.items) = 1

\* the directories the run made (whole or in part)
CreatedDirs == { d \in DOMAIN workspace : workspace[d].siteConfig # "(external)" }

\* the number the chosen starting name ends in
BaseNumber == extractSiteNumber(answers.startingSiteName)

TotalSitesToCreate == totalSites(config.domains, answers.subdomainCount)

BeforeTemplateCheck == { "checkDependencies", "prompt", "startingName", "template" }

AfterGeneration == { "deploy", "publish", "writeSiteMappings", "done" }

\* C4: a run whose template catalog has fewer html5-tagged entries than
\* gamesMax does not get past the template check: it has failed with no
\* directory made and no site generated; and once a run has made a directory,
\* every count it assigns is at most the number of eligible entries.
C4_AbortOnTooFewEligible ==
  LET eligible == eligibleCount(template.gamesJson)
  IN  /\ (/\ template.found /\ template.gamesJson.type = "json"
          /\ pc \notin BeforeTemplateCheck
          /\ eligible < answers.gamesMax)
         => /\ pc = "failed"
            /\ error.kind \in { "InsufficientEligibleGames", "TypeError" }
            /\ CreatedDirs = {}
            /\ generatedSites = << >>
      /\ CreatedDirs # {}
         => \A i \in 1..Len(allDomains) : possibleCounts[i] <= eligible

\* C4 witness: the run aborted on a catalog that has eligible entries, but
\* fewer than gamesMax.
C4_Witness ==
  /\ error.kind = "InsufficientEligibleGames"
  /\ eligibleCount(template.gamesJson) = 1
  /\ answers.gamesMax = 2

\* C5: when gamesMax - gamesMin + 1 < totalSites, the step of generateProjects
\* that plans the counts fails with the range-too-small error, and then no
\* directory has been made and generatedSites is empty.
C5_RangeTooSmallFails ==
  [][(/\ pc = "generate" /\ pc' # "generate"
      /\ answers.gamesMax - answers.gamesMin + 1 < TotalSitesToCreate)
     => /\ pc' = "failed"
        /\ error'.kind = "RangeTooSmall"
        /\ generatedSites' = << >>
        /\ CreatedDirs' = {}]_vars

\* C5 witness: a run failed with the range-too-small error, one count short.
C5_Witness ==
  /\ error.kind = "RangeTooSmall"
  /\ answers.gamesMax - answers.gamesMin + 1 = TotalSitesToCreate - 1

\* C6: once a publishing step has failed, it is the last step that ran (no
\* further step of that project, no step of a later project, no retry), the
\* run has failed with an error carrying that project's name and the failing
\* step, no later project has a repository, the site map is not written, and
\* the run takes no further step.
C6_PublishFailureAborts ==
  LET failed == { i \in DOMAIN stepsRun : ~stepsRun[i].ok }
      last == stepsRun[Len(stepsRun)]
  IN  /\ failed # {}
         => /\ failed = { Len(stepsRun) }
            /\ pc = "failed"
            /\ error.kind = "PublishFailed"
            /\ error.project = last.project
            /\ error.cause = last.step
            /\ last.project = generatedSites[deployIndex + 1].projectName
            /\ Len(remote) = deployIndex
            /\ \A k \in (deployIndex + 1)..Len(generatedSites) :
                 fullRepoName(generatedSites[k]) \notin Range(remote)
            /\ \A k \in (deployIndex + 2)..Len(generatedSites) :
                 \A i \in DOMAIN stepsRun :
                   stepsRun[i].project # generatedSites[k].projectName
            /\ ~siteMap.written /\ mapWrites = 0
            /\ ~ENABLED Next
      /\ \A i, j \in DOMAIN stepsRun :
           (i # j /\ stepsRun[i].project = stepsRun[j].project)
             => stepsRun[i].step # stepsRun[j].step

\* C6 witness: the first of two projects failed at its second step.
C6_Witness ==
  /\ error.kind = "PublishFailed"
  /\ Len(generatedSites) = 2 /\ deployIndex = 0
  /\ error.cause = "removeRemotes"

C8_SiteMapOnceAtEnd ==
  /\ mapWrites <= 1
  /\ siteMap.written
     => LET n == BaseNumber
            total == TotalSitesToCreate
        IN  /\ pc = "done" /\ error = NoError /\ mapWrites = 1
            /\ Len(allDomains) = total
            /\ Len(generatedSites) = total
            /\ \A i \in 1..total :
                 /\ projectName(n + i - 1) \in CreatedDirs
                 /\ config.githubUsername \o "/wj-" \o projectName(n + i - 1)
                      \in Range(remote)
            /\ \A i \in DOMAIN stepsRun : stepsRun[i].ok
            /\ Len(stepsRun) = total * Len(PublishSteps)
            /\ Len(siteMap.mapping) = total
            /\ \A i \in 1..total :
                 siteMap.mapping[i] = [siteName |-> projectName(n + i - 1),
                                       domain |-> allDomains[i]]
  /\ pc = "failed" => (~siteMap.written /\ mapWrites = 0)

\* C8 witness: the map of a run of two sites, one of them a subdomain, was
\* written.
C8_Witness ==
  /\ siteMap.written
  /\ Len(siteMap.mapping) = 2
  /\ answers.subdomainCount = 1

\* C9: the k-th project materialized is named site(n+k-1) for the trailing
\* integer n of the starting name, is assigned the k-th domain of the expanded
\* list, and its directory carries that domain; projects are published one at
\* a time in the same order.
C9_SequentialNames ==
  LET n == BaseNumber
  IN  /\ Len(generatedSites) = siteIndex
      /\ \A k \in 1..Len(generatedSites) :
           /\ generatedSites[k].projectName = projectName(n + k - 1)
           /\ generatedSites[k].domain = allDomains[k]
           /\ generatedSites[k].projectName \in DOMAIN workspace
           /\ workspace[generatedSites[k].projectName].siteConfig = allDomains[k]
      /\ Len(remote) = deployIndex
      /\ \A k \in 1..Len(remote) :
           remote[k] = config.githubUsername \o "/wj-" \o projectName(n + k - 1)
      /\ \A i \in DOMAIN stepsRun :
           LET k == ((i - 1) \div Len(PublishSteps)) + 1
           IN  /\ stepsRun[i].project = projectName(n + k - 1)
               /\ stepsRun[i].step = PublishSteps[((i - 1) % Len(PublishSteps)) + 1]

\* C9 witness: a run that started at "mysite01" published site1 and site2,
\* the second one on a generated subdomain.
C9_Witness ==
  /\ Len(remote) = 2
  /\ answers.startingSiteName = << "m", "y", "s", "i", "t", "e", "0", "1" >>
  /\ generatedSites[2].projectName = "site2"
  /\ generatedSites[2].domain # config.domains[Len(config.domains)]

\* C10: a pass of the loop in which processGamesJson warned still appends
\* its project to generatedSites and goes on (to the next project, or to
\* deployment after the last); a failure of the copy or of the site-config
\* rewrite fails the run without appending; and no run gets past
\* generation with fewer projects than domains.
C10_GamesFailureNonFatal ==
  /\ [](pc \in AfterGeneration => Len(generatedSites) = Len(allDomains))
  /\ [][/\ Len(warnings') > Len(warnings)
           => /\ Len(generatedSites') = Len(generatedSites) + 1
              /\ generatedSites'[Len(generatedSites')].projectName
                   = warnings'[Len(warnings')]
              /\ error' = NoError
              /\ pc' = IF Len(generatedSites') < Len(allDomains)
                       THEN "materialize" ELSE "deploy"
        /\ (error.kind = "none" /\ error'.kind = "MaterializationFailed")
           => /\ pc' = "failed"
              /\ error'.cause \in { "copy", "site-config" }
              /\ warnings' = warnings
              /\ generatedSites' = generatedSites]_vars

\* C10 witness: the first of two projects got a warning for its games.json,
\* and both were materialized.
C10_Witness ==
  /\ pc = "deploy"
  /\ Len(generatedSites) = 2
  /\ warnings = << generatedSites[1].projectName >>

=============================================================================
